---- MODULE Spec2Model ----
(***************************************************************************)
(* A model of the SuiteCRM API V8 client (SuiteCRM.py): the OAuth2 token   *)
(* lifecycle (_login, _refresh_token, _logout, AccessToken.txt), the       *)
(* request() retry pipeline, and the URL construction of Module.get and    *)
(* Module.get_all.                                                         *)
(*                                                                         *)
(* Text (URLs, file content) is a sequence of one-character strings, so    *)
(* that slicing (url[:-4], url[:-2]) and concatenation act on characters.  *)
(***************************************************************************)
EXTENDS Integers, Sequences, FiniteSets, TLC

VARIABLES
    alive,      \* a SuiteCRM client object exists in a running process
    config,     \* self.config (url, client_id, client_secret)
    logout_on_exit, \* self._logout_on_exit, registered with atexit
    token,      \* self.OAuth2Session.token
    file,       \* content of AccessToken.txt
    op,         \* the operation in progress (caller of request())
    pc,         \* position inside request()
    req,        \* locals of request(): url, method, parameters, data, attempts
    result,     \* how the last request() call ended
    net,        \* per request()/construction: refreshes and API calls made
    sent,       \* per request(): the calls of the_method, in order
    outcome     \* how the last operation ended

vars == <<alive, config, logout_on_exit, token, file, op, pc, req, result,
          net, sent, outcome>>

----------------------------------------------------------------------------
(* Bounds of the model *)

MaxFilters == 2
MaxTotalPages == 3
MaxPageSize == 2
MaxToken == 2

----------------------------------------------------------------------------
(* Text helpers *)

Digits == <<"0", "1", "2", "3", "4", "5", "6", "7", "8", "9">>

RECURSIVE IntToStr(_)
IntToStr(n) ==
    IF n < 10 THEN <<Digits[n + 1]>>
    ELSE IntToStr(n \div 10) \o <<Digits[(n % 10) + 1]>>

\* s[:-n]
DropLast(s, n) == SubSeq(s, 1, Len(s) - n)

RECURSIVE Join(_, _)
Join(sep, parts) ==
    IF parts = <<>> THEN <<>>
    ELSE IF Len(parts) = 1 THEN parts[1]
    ELSE parts[1] \o sep \o Join(sep, Tail(parts))

IsPrefix(p, s) == Len(p) <= Len(s) /\ SubSeq(s, 1, Len(p)) = p

\* characters urllib.parse.quote never encodes, plus safe='/:?=&'
QuoteKeep ==
    {"a", "b", "c", "d", "e", "f", "g", "h", "i", "j", "k", "l", "m", "n",
     "o", "p", "q", "r", "s", "t", "u", "v", "w", "x", "y", "z",
     "A", "B", "C", "D", "E", "F", "G", "H", "I", "J", "K", "L", "M", "N",
     "O", "P", "Q", "R", "S", "T", "U", "V", "W", "X", "Y", "Z",
     "0", "1", "2", "3", "4", "5", "6", "7", "8", "9",
     "_", ".", "-", "~", "/", ":", "?", "=", "&"}

QuoteChar(c) ==
    IF c \in QuoteKeep THEN <<c>>
    ELSE CASE c = "[" -> <<"%", "5", "B">>
           [] c = "]" -> <<"%", "5", "D">>
           [] c = "," -> <<"%", "2", "C">>
           [] c = "+" -> <<"%", "2", "B">>
           [] c = " " -> <<"%", "2", "0">>
           [] c = "<" -> <<"%", "3", "C">>
           [] c = ">" -> <<"%", "3", "E">>
           [] c = "%" -> <<"%", "2", "5">>

RECURSIVE quote(_)
quote(url) ==
    IF url = <<>> THEN <<>> ELSE QuoteChar(Head(url)) \o quote(Tail(url))

----------------------------------------------------------------------------
(* Module.get: the URL construction *)

operators ==
    "=" :> <<"E", "Q">> @@ "<>" :> <<"N", "E", "Q">> @@ ">" :> <<"G", "T">>
    @@ ">=" :> <<"G", "T", "E">> @@ "<" :> <<"L", "T">>
    @@ "<=" :> <<"L", "T", "E">>

KeyError == [raised |-> TRUE, url |-> <<>>]

\* a lookup that falls back to equality: operators.get(.., 'EQ')
OperatorName_Default(o) ==
    IF o \in DOMAIN operators THEN [raised |-> FALSE, url |-> operators[o]]
    ELSE [raised |-> FALSE, url |-> <<"E", "Q">>]

\* operators[value["operator"]]
OperatorName(o) ==
    IF o \in DOMAIN operators THEN [raised |-> FALSE, url |-> operators[o]]
    ELSE KeyError

\* the URL before the filter loop
FieldsConstructor(module_name, fields) ==
    IF fields # <<>>
    THEN <<"/", "m", "o", "d", "u", "l", "e", "/">> \o module_name
         \o <<"?", "f", "i", "e", "l", "d", "s", "[">> \o module_name
         \o <<"]", "=">> \o Join(<<",">>, fields)
         \o <<"&", "f", "i", "l", "t", "e", "r">>
    ELSE <<"/", "m", "o", "d", "u", "l", "e", "/">> \o module_name
         \o <<"?", "f", "i", "l", "t", "e", "r">>

\* the body of the filter loop, for one (field, value) item
FilterTerm(url, f) ==
    IF f.isdict
    THEN LET name == OperatorName(f.operator) IN
         IF name.raised THEN KeyError
         ELSE [raised |-> FALSE,
               url |-> url \o <<"[">> \o f.field \o <<"]">>
                       \o <<"[">> \o name.url \o <<"]">>
                       \o <<"=">> \o f.value \o <<"a", "n", "d", "&">>]
    ELSE [raised |-> FALSE,
          url |-> url \o <<"[">> \o f.field \o <<"]">>
                  \o <<"[", "e", "q", "]">> \o <<"=">> \o f.value
                  \o <<"a", "n", "d", "&">>]

RECURSIVE FilterConstructor(_, _)
FilterConstructor(url, filters) ==
    IF filters = <<>> THEN [raised |-> FALSE, url |-> url]
    ELSE LET step == FilterTerm(url, Head(filters)) IN
         IF step.raised THEN KeyError
         ELSE FilterConstructor(step.url, Tail(filters))

\* a strip that is one character short: url[:-3]
StripConjunction_Three(url) == DropLast(url, 3)

\* url = url[:-4]
StripConjunction(url) == DropLast(url, 4)

SortClause(url, sort) ==
    IF sort # <<>> THEN url \o <<"&", "s", "o", "r", "t", "=", "-">> \o sort
    ELSE url

\* the URL Module.get hands to request(), without the config.url prefix
GetUrl(module_name, fields, sort, filters) ==
    LET built == FilterConstructor(FieldsConstructor(module_name, fields),
                                   filters) IN
    IF built.raised THEN KeyError
    ELSE [raised |-> FALSE,
          url |-> SortClause(StripConjunction(built.url), sort)]

----------------------------------------------------------------------------
(* Tokens, the token file and _refresh_token *)

\* OAuth2Session.token of a fresh session: the empty dict
NoToken == [form |-> "dict", access_token |-> 0, text |-> <<>>]

\* the token dict fetch_token stores in the session
Token(n) == [form |-> "dict", access_token |-> n, text |-> <<>>]

\* str(self.OAuth2Session.token)
TokenStr(t) ==
    IF t.form = "str" THEN t.text
    ELSE IF t.access_token = 0 THEN <<"{", "}">>
    ELSE <<"{">> \o IntToStr(t.access_token) \o <<"}">>

\* a mode that keeps the content: open(name, 'r+')
OpenKeep(content) == content

\* the content of a file right after open(name, 'w+')
OpenTruncate(content) == <<>>

\* tk_url = self.config.url[:-2] + 'access_token'
TokenUrl(url) ==
    DropLast(url, 2)
    \o <<"a", "c", "c", "e", "s", "s", "_", "t", "o", "k", "e", "n">>

\* the token the identity provider issues to a session holding t: a new one,
\* the next of MaxToken token values
IssuedTokens(t) == {(t.access_token % MaxToken) + 1}

\* what fetch_token can do: succeed, or raise
RefreshOutcomes ==
    {"ok", "InvalidClientError", "CustomOAuth2Error", "ConnectionError"}

\* a refresh that keeps the new token in memory only
RefreshToken_NoWrite(o, n, t, f) ==
    CASE o = "ok" ->
           [kind |-> "return", exc |-> "", token |-> Token(n), file |-> f]
      [] o = "InvalidClientError" ->
           [kind |-> "exit", exc |-> "401 (Unauthorized) - client id/secret",
            token |-> t, file |-> f]
      [] o = "CustomOAuth2Error" ->
           [kind |-> "exit", exc |-> "401 (Unauthorized) - client id",
            token |-> t, file |-> f]
      [] OTHER ->
           [kind |-> "raise", exc |-> o, token |-> t, file |-> f]

\* a refresh that empties the token file when the client is rejected
RefreshToken_ClearOnReject(o, n, t, f) ==
    CASE o = "ok" ->
           [kind |-> "return", exc |-> "", token |-> Token(n),
            file |-> TokenStr(Token(n))]
      [] o = "InvalidClientError" ->
           [kind |-> "exit", exc |-> "401 (Unauthorized) - client id/secret",
            token |-> t, file |-> <<>>]
      [] o = "CustomOAuth2Error" ->
           [kind |-> "exit", exc |-> "401 (Unauthorized) - client id",
            token |-> t, file |-> <<>>]
      [] OTHER ->
           [kind |-> "raise", exc |-> o, token |-> t, file |-> f]

\* _refresh_token on token t and file content f, when fetch_token ends
\* with o and the identity provider issues token n
RefreshToken(o, n, t, f) ==
    CASE o = "ok" ->
           [kind |-> "return", exc |-> "", token |-> Token(n),
            file |-> TokenStr(Token(n))]
      [] o = "InvalidClientError" ->
           [kind |-> "exit", exc |-> "401 (Unauthorized) - client id/secret",
            token |-> t, file |-> f]
      [] o = "CustomOAuth2Error" ->
           [kind |-> "exit", exc |-> "401 (Unauthorized) - client id",
            token |-> t, file |-> f]
      [] OTHER ->
           [kind |-> "raise", exc |-> o, token |-> t, file |-> f]

----------------------------------------------------------------------------
(* HTTP responses and parsed bodies *)

NoMeta == [has_total |-> FALSE, total_pages |-> 0]

Meta(n) == [has_total |-> TRUE, total_pages |-> n]

\* a parsed JSON document with its 'data' and 'meta' members; None is the
\* Python None
None == [isNone |-> TRUE, data |-> <<>>, meta |-> NoMeta]

Doc(data, meta) == [isNone |-> FALSE, data |-> data, meta |-> meta]

\* a response body: whether it is JSON, whether its text contains
\* 'Database failure.', and the document json.loads makes of it
JsonBody(doc) == [json |-> TRUE, marker |-> FALSE, doc |-> doc]

MarkerBody == [json |-> TRUE, marker |-> TRUE, doc |-> Doc(<<>>, NoMeta)]

HtmlBody == [json |-> FALSE, marker |-> FALSE, doc |-> None]

Statuses == {200, 400, 401, 500}

NoResponse == [expired |-> FALSE, status |-> 0, body |-> HtmlBody]

\* TokenExpiredError raised by the session instead of a response
Expired == [expired |-> TRUE, status |-> 0, body |-> HtmlBody]

\* the documents the server can answer with, by the call being made
Docs(o) ==
    IF o.name = "get_all" /\ o.phase = "count"
    THEN {Doc(<<>>, NoMeta)} \cup {Doc(<<>>, Meta(n)) : n \in 0..MaxTotalPages}
    ELSE IF o.name = "get_all"
    THEN {Doc(<<"r1">>, NoMeta), Doc(<<"r2">>, NoMeta)}
    ELSE {Doc(<<"r1">>, NoMeta)}

Bodies(o) == {JsonBody(d) : d \in Docs(o)} \cup {MarkerBody, HtmlBody}

\* what one call of the_method can produce
TransportOutcomes(o) ==
    {Expired}
    \cup {[expired |-> FALSE, status |-> 401, body |-> HtmlBody]}
    \cup {[expired |-> FALSE, status |-> s, body |-> b] :
            s \in Statuses \ {401}, b \in Bodies(o)}

\* a result that carries no raw body
NoRaw == [json |-> FALSE, marker |-> FALSE, doc |-> None]

NoResult == [kind |-> "none", exc |-> "", value |-> None, raw |-> NoRaw]

\* a loop that retries on every status but 200
WhileCond_AnyError(status, attempts) == status # 200 /\ attempts < 1

\* a loop whose bound is off by one: attempts < 2
WhileCond_TwoRetries(status, attempts) == status = 401 /\ attempts < 2

\* the while condition of the revoked-token loop
WhileCond(status, attempts) == status = 401 /\ attempts < 1

\* an end of request() that looks for the marker whatever the status
Classify_MarkerAnyStatus(data) ==
    IF data.status = 401
    THEN [kind |-> "exit", exc |-> "401 (Unauthorized) revoked",
          value |-> None, raw |-> NoRaw]
    ELSE IF data.body.marker
    THEN [kind |-> "raise", exc |-> "Database failure.", value |-> None,
          raw |-> data.body]
    ELSE IF data.body.json
    THEN [kind |-> "return", exc |-> "", value |-> data.body.doc,
          raw |-> NoRaw]
    ELSE [kind |-> "raise", exc |-> "JSONDecodeError", value |-> None,
          raw |-> NoRaw]

\* an end of request() without the final 401 check
Classify_NoFinal401(data) ==
    IF data.status = 400 /\ data.body.marker
    THEN [kind |-> "raise", exc |-> "Database failure.", value |-> None, raw |-> data.body]
    ELSE IF data.body.json
    THEN [kind |-> "return", exc |-> "", value |-> data.body.doc, raw |-> NoRaw]
    ELSE [kind |-> "raise", exc |-> "JSONDecodeError", value |-> None, raw |-> NoRaw]

\* lines 201-214: the end of request() on the final response
Classify(data) ==
    IF data.status = 401
    THEN [kind |-> "exit", exc |-> "401 (Unauthorized) revoked",
          value |-> None, raw |-> NoRaw]
    ELSE IF data.status = 400 /\ data.body.marker
    THEN [kind |-> "raise", exc |-> "Database failure.", value |-> None, raw |-> data.body]
    ELSE IF data.body.json
    THEN [kind |-> "return", exc |-> "", value |-> data.body.doc, raw |-> NoRaw]
    ELSE [kind |-> "raise", exc |-> "JSONDecodeError", value |-> None, raw |-> NoRaw]

\* a page count by floor division plus one
Ceil_FloorPlusOne(a, b) == (a \div b) + 1

\* math.ceil(a / b)
Ceil(a, b) == IF a % b = 0 THEN a \div b ELSE (a \div b) + 1

----------------------------------------------------------------------------
(* Inputs *)

BaseUrls ==
    {<<"h", ":", "/", "/", "c", "/", "V", "8">>,
     <<"h", ":", "/", "/", "c", "/", "a", "p", "i">>}

NoConfig == [url |-> <<>>, client_id |-> <<>>, client_secret |-> <<>>]

Configs ==
    {[url |-> u, client_id |-> <<"i">>, client_secret |-> <<"s">>] :
        u \in BaseUrls}

ModuleNames == {<<"B", "u", "g", "s">>}

FieldLists == {<<>>, <<<<"n", "a", "m", "e">>, <<"i", "d">>>>}

SortFields == {<<>>, <<"i", "d">>}

FilterFields == {<<"i", "d">>, <<"n">>}

FilterOperators == {"=", "<>", ">", ">=", "<", "<=", "LIKE"}

\* the operators drawn for a field: every one for the first field, one of
\* the table and the unknown one for the other
OperatorsOf(f) ==
    IF f = <<"i", "d">> THEN FilterOperators ELSE {">", "LIKE"}

\* one item of **filters: a literal value, or {'operator': .., 'value': ..}
FilterItems ==
    {[field |-> f, isdict |-> FALSE, operator |-> "", value |-> <<"1">>] :
        f \in FilterFields}
    \cup UNION {{[field |-> f, isdict |-> TRUE, operator |-> o,
                   value |-> <<"1">>] : o \in OperatorsOf(f)} :
                 f \in FilterFields}

\* keyword arguments: an ordered mapping, so no field occurs twice
FilterSpecs ==
    {fs \in UNION {[1..n -> FilterItems] : n \in 0..MaxFilters} :
        \A i, j \in DOMAIN fs : i # j => fs[i].field # fs[j].field}

NoArgs == [module_name |-> <<>>, fields |-> <<>>, sort |-> <<>>,
           filters |-> <<>>]

Methods == {"post", "delete", "fetch", "headers"}

\* the callable attributes of the session that request() is used with
SessionMethods == {"get", "post", "put", "patch", "delete", "head", "options"}

\* the names getattr finds on the session: its methods and its data
SessionAttributes == SessionMethods \cup {"headers", "token"}

Parameters == {"", "attributes"}

----------------------------------------------------------------------------
(* State *)

Idle == [name |-> "none", phase |-> "", args |-> NoArgs, url |-> <<>>,
         record_per_page |-> 0, total |-> 0, pages |-> 0, page |-> 0,
         result |-> <<>>, page_requests |-> <<>>, page_data |-> <<>>]

NoReq == [url |-> <<>>, method |-> "", parameters |-> "",
          body |-> [data |-> ""], data |-> NoResponse, attempts |-> 0]

NoNet == [refreshes |-> 0, calls |-> 0, tk_url |-> <<>>]

\* the arguments of the last construction
NoCredential == [client_id |-> <<>>, client_secret |-> <<>>, url |-> <<>>,
                 config |-> FALSE]

NoOutcome == [op |-> "none", kind |-> "none", exc |-> "", value |-> <<>>,
              args |-> NoArgs, prior |-> <<>>, loaded |-> <<>>,
              page_requests |-> <<>>, page_data |-> <<>>,
              record_per_page |-> 0, total |-> 0, has_total |-> FALSE,
              credential |-> NoCredential]

Init ==
    /\ alive = FALSE
    /\ config = NoConfig
    /\ logout_on_exit = FALSE
    /\ token = NoToken
    /\ file = <<>>
    /\ op = Idle
    /\ pc = "idle"
    /\ req = NoReq
    /\ result = NoResult
    /\ net = NoNet
    /\ sent = <<>>
    /\ outcome = NoOutcome

----------------------------------------------------------------------------
(* __init__ and _login *)

\* lines 30-40: the config __init__ ends up with; NoConfig when none is set
InitConfig(client_id, client_secret, url, cfg) ==
    IF cfg # NoConfig THEN cfg
    ELSE IF client_id # <<>> /\ url # <<>> /\ client_secret # <<>>
    THEN [url |-> url, client_id |-> client_id,
          client_secret |-> client_secret]
    ELSE NoConfig

\* SuiteCRM(client_id, client_secret, url, config, logout_on_exit) in a new
\* process.  _login always takes its first branch here: __init__ is its only
\* caller and the object has no OAuth2Session yet.
Construct(client_id, client_secret, url, cfg, loe) ==
    /\ ~alive
    /\ pc = "idle"
    /\ UNCHANGED <<op, pc, req, result, sent>>
    /\ LET c == InitConfig(client_id, client_secret, url, cfg)
           cred == [client_id |-> client_id, client_secret |-> client_secret,
                    url |-> url, config |-> cfg # NoConfig]
       IN
       IF c = NoConfig
       THEN \* self.config was never assigned: 'if not self.config' raises
            /\ outcome' = [NoOutcome EXCEPT !.op = "construct",
                               !.credential = cred,
                               !.kind = "raise", !.exc = "AttributeError",
                               !.prior = file]
            /\ net' = NoNet
            /\ UNCHANGED <<alive, config, logout_on_exit, token, file>>
       ELSE LET opened == OpenTruncate(file)
                loaded == opened
            IN
            IF loaded = <<>>
            THEN \E o \in RefreshOutcomes, n \in IssuedTokens(NoToken) :
                   LET r == RefreshToken(o, n, NoToken, opened) IN
                   /\ file' = r.file
                   /\ net' = [refreshes |-> 1, calls |-> 0,
                              tk_url |-> TokenUrl(c.url)]
                   /\ outcome' = [NoOutcome EXCEPT !.op = "construct",
                               !.credential = cred,
                                      !.kind = r.kind, !.exc = r.exc,
                                      !.prior = file, !.loaded = loaded]
                   /\ IF r.kind = "return"
                      THEN /\ alive' = TRUE
                           /\ config' = c
                           /\ logout_on_exit' = loe
                           /\ token' = r.token
                      ELSE UNCHANGED <<alive, config, logout_on_exit, token>>
            ELSE /\ file' = opened
                 /\ net' = NoNet
                 /\ outcome' = [NoOutcome EXCEPT !.op = "construct",
                               !.credential = cred,
                                    !.kind = "return",
                                    !.prior = file, !.loaded = loaded]
                 /\ alive' = TRUE
                 /\ config' = c
                 /\ logout_on_exit' = loe
                 /\ token' = [form |-> "str", access_token |-> 0,
                              text |-> loaded]

----------------------------------------------------------------------------
(* request() *)

\* json.dumps({"data": parameters})
JsonDumps(parameters) == [data |-> parameters]

\* an entry of request() that takes every method name for a session method
request_NoGetattr(url, method, parameters) ==
    /\ req' = [url |-> quote(url), method |-> method,
               parameters |-> parameters, body |-> JsonDumps(parameters),
               data |-> NoResponse, attempts |-> 0]
    /\ net' = NoNet
    /\ sent' = <<>>
    /\ IF TRUE
       THEN pc' = "try" /\ result' = NoResult
       ELSE pc' = "done"
            /\ result' = [kind |-> "return", exc |-> "", value |-> None, raw |-> NoRaw]

\* lines 173-178: entry of request(); an unknown method name returns None
request(url, method, parameters) ==
    /\ req' = [url |-> quote(url), method |-> method,
               parameters |-> parameters, body |-> JsonDumps(parameters),
               data |-> NoResponse, attempts |-> 0]
    /\ net' = NoNet
    /\ sent' = <<>>
    /\ IF method \in SessionAttributes
       THEN pc' = "try" /\ result' = NoResult
       ELSE pc' = "done"
            /\ result' = [kind |-> "return", exc |-> "", value |-> None, raw |-> NoRaw]

\* a call that encodes the URL again on every retry
the_method_Requote(o, site) ==
    /\ sent' = Append(sent,
                 [site |-> site,
                  url |-> IF site = "first" THEN req.url ELSE quote(req.url), method |-> req.method,
                  has_body |-> req.parameters # "",
                  body |-> IF req.parameters = "" THEN [data |-> ""]
                           ELSE req.body,
                  token |-> token, store |-> file, expired |-> o.expired,
                  status |-> o.status])
    /\ net' = [net EXCEPT !.calls = @ + 1]

\* one call of the_method, the_method(url) or the_method(url, data=data),
\* made at site (first, expired_retry, revoked_retry) and ending with o
the_method(o, site) ==
    /\ sent' = Append(sent,
                 [site |-> site, url |-> req.url, method |-> req.method,
                  has_body |-> req.parameters # "",
                  body |-> IF req.parameters = "" THEN [data |-> ""]
                           ELSE req.body,
                  token |-> token, store |-> file, expired |-> o.expired,
                  status |-> o.status])
    /\ net' = [net EXCEPT !.calls = @ + 1]

\* a call of _refresh_token from request(): next is where request()
\* continues when it returns
Refresh(next) ==
    \E o \in RefreshOutcomes, n \in IssuedTokens(token) :
        LET r == RefreshToken(o, n, token, file) IN
        /\ token' = r.token
        /\ file' = r.file
        /\ net' = [net EXCEPT !.refreshes = @ + 1,
                              !.tk_url = TokenUrl(config.url)]
        /\ IF r.kind = "return"
           THEN pc' = next /\ UNCHANGED result
           ELSE pc' = "done"
                /\ result' = [kind |-> r.kind, exc |-> r.exc, value |-> None, raw |-> NoRaw]

\* lines 180-184: the first attempt
Try ==
    /\ pc = "try"
    /\ IF req.method \notin SessionMethods
       THEN \* the attribute is not callable: TypeError, nothing is sent
            /\ pc' = "done"
            /\ result' = [kind |-> "raise", exc |-> "TypeError",
                          value |-> None, raw |-> NoRaw]
            /\ UNCHANGED <<req, net, sent>>
       ELSE /\ \E o \in TransportOutcomes(op) :
                 /\ the_method(o, "first")
                 /\ IF o.expired
                    THEN pc' = "expired_refresh" /\ UNCHANGED req
                    ELSE pc' = "while" /\ req' = [req EXCEPT !.data = o]
            /\ UNCHANGED result
    /\ UNCHANGED <<alive, config, logout_on_exit, token, file, op, outcome>>

\* lines 185-186: except TokenExpiredError: self._refresh_token()
ExpiredRefresh ==
    /\ pc = "expired_refresh"
    /\ Refresh("expired_retry")
    /\ UNCHANGED <<alive, config, logout_on_exit, op, req, sent, outcome>>

\* a retry that takes a second TokenExpiredError for a 401 response
ExpiredRetry_TreatAs401 ==
    /\ pc = "expired_retry"
    /\ \E o \in TransportOutcomes(op) :
         /\ the_method(o, "expired_retry")
         /\ IF o.expired
            THEN /\ pc' = "while"
                 /\ req' = [req EXCEPT !.data =
                              [expired |-> FALSE, status |-> 401,
                               body |-> HtmlBody]]
                 /\ UNCHANGED result
            ELSE pc' = "while" /\ req' = [req EXCEPT !.data = o]
                 /\ UNCHANGED result
    /\ UNCHANGED <<alive, config, logout_on_exit, token, file, op, outcome>>

\* a retry after the expiry signal that uses up the loop's one attempt
ExpiredRetry_ConsumesAllowance ==
    /\ pc = "expired_retry"
    /\ \E o \in TransportOutcomes(op) :
         /\ the_method(o, "expired_retry")
         /\ IF o.expired
            THEN /\ pc' = "done"
                 /\ result' = [kind |-> "raise", exc |-> "TokenExpiredError",
                               value |-> None, raw |-> NoRaw]
                 /\ UNCHANGED req
            ELSE pc' = "while" /\ req' = [req EXCEPT !.data = o, !.attempts = 1]
                 /\ UNCHANGED result
    /\ UNCHANGED <<alive, config, logout_on_exit, token, file, op, outcome>>

\* lines 187-190: the retry inside the except block; a second
\* TokenExpiredError is not caught
ExpiredRetry ==
    /\ pc = "expired_retry"
    /\ \E o \in TransportOutcomes(op) :
         /\ the_method(o, "expired_retry")
         /\ IF o.expired
            THEN /\ pc' = "done"
                 /\ result' = [kind |-> "raise", exc |-> "TokenExpiredError",
                               value |-> None, raw |-> NoRaw]
                 /\ UNCHANGED req
            ELSE pc' = "while" /\ req' = [req EXCEPT !.data = o]
                 /\ UNCHANGED result
    /\ UNCHANGED <<alive, config, logout_on_exit, token, file, op, outcome>>

\* lines 194-195: the loop is entered: self._refresh_token()
RevokedRefresh ==
    /\ pc = "while"
    /\ WhileCond(req.data.status, req.attempts)
    /\ Refresh("revoked_retry")
    /\ UNCHANGED <<alive, config, logout_on_exit, op, req, sent, outcome>>

\* lines 196-200: the retry of the loop body and attempts += 1
RevokedRetry ==
    /\ pc = "revoked_retry"
    /\ \E o \in TransportOutcomes(op) :
         /\ the_method(o, "revoked_retry")
         /\ IF o.expired
            THEN /\ pc' = "done"
                 /\ result' = [kind |-> "raise", exc |-> "TokenExpiredError",
                               value |-> None, raw |-> NoRaw]
                 /\ UNCHANGED req
            ELSE /\ pc' = "while"
                 /\ req' = [req EXCEPT !.data = o, !.attempts = @ + 1]
                 /\ UNCHANGED result
    /\ UNCHANGED <<alive, config, logout_on_exit, token, file, op, outcome>>

\* lines 201-214: the loop is left: exit, raise or return
Finish ==
    /\ pc = "while"
    /\ ~WhileCond(req.data.status, req.attempts)
    /\ result' = Classify(req.data)
    /\ pc' = "done"
    /\ UNCHANGED <<alive, config, logout_on_exit, token, file, op, req, net,
                   sent, outcome>>

----------------------------------------------------------------------------
(* The callers of request() *)

\* the process is gone: only AccessToken.txt survives
Dead ==
    /\ alive' = FALSE
    /\ config' = NoConfig
    /\ logout_on_exit' = FALSE
    /\ token' = NoToken

\* the locals of request() are gone once it has returned
Reset ==
    /\ req' = NoReq
    /\ result' = NoResult
    /\ net' = NoNet
    /\ sent' = <<>>

\* what an operation leaves behind for its caller
Ended(kind, exc, value) ==
    [NoOutcome EXCEPT !.op = op.name, !.kind = kind, !.exc = exc,
                      !.value = value,
                      !.page_requests = op.page_requests,
                      !.page_data = op.page_data,
                      !.record_per_page = op.record_per_page,
                      !.total = op.total,
                      !.has_total = op.phase = "pages"]

\* a direct call of request(), as create, update and delete make it
Request(method, parameters) ==
    /\ alive
    /\ pc = "idle"
    /\ op' = [Idle EXCEPT !.name = "request",
                          !.url = config.url \o <<"/", "m", "o", "d", "u",
                                                  "l", "e">>]
    /\ request(op'.url, method, parameters)
    /\ outcome' = NoOutcome
    /\ UNCHANGED <<alive, config, logout_on_exit, token, file>>

RequestReturn ==
    /\ pc = "done"
    /\ op.name = "request"
    /\ result.kind = "return"
    /\ outcome' = Ended("return", "", result.value)
    /\ op' = Idle
    /\ pc' = "idle"
    /\ Reset
    /\ UNCHANGED <<alive, config, logout_on_exit, token, file>>

\* an exception or exit() inside request() passes through every caller:
\* none of them has a try block.  exit() ends the process, and so does the
\* end of the atexit handler.
Unwind ==
    /\ pc = "done"
    /\ result.kind \in {"raise", "exit"}
    /\ outcome' = Ended(result.kind, result.exc, <<>>)
    /\ op' = Idle
    /\ pc' = "idle"
    /\ IF result.kind = "exit" \/ op.name = "logout"
       THEN Dead
       ELSE UNCHANGED <<alive, config, logout_on_exit, token>>
    /\ Reset
    /\ UNCHANGED file

\* Module(suitecrm, module_name).get(fields, sort, **filters), lines 295-325
Get(module_name, fields, sort, filters) ==
    /\ alive
    /\ pc = "idle"
    /\ LET built == GetUrl(module_name, fields, sort, filters)
           args == [module_name |-> module_name, fields |-> fields,
                    sort |-> sort, filters |-> filters]
       IN
       IF built.raised
       THEN /\ outcome' = [NoOutcome EXCEPT !.op = "get", !.kind = "raise",
                               !.exc = "KeyError", !.args = args]
            /\ net' = NoNet
            /\ sent' = <<>>
            /\ UNCHANGED <<op, pc, req, result>>
       ELSE /\ op' = [Idle EXCEPT !.name = "get", !.args = args,
                                  !.url = config.url \o built.url]
            /\ request(op'.url, "get", "")
            /\ outcome' = NoOutcome
    /\ UNCHANGED <<alive, config, logout_on_exit, token, file>>

\* line 325: request(...)['data']
GetReturn ==
    /\ pc = "done"
    /\ op.name = "get"
    /\ result.kind = "return"
    /\ outcome' = Ended("return", "", result.value.data)
    /\ op' = Idle
    /\ pc' = "idle"
    /\ Reset
    /\ UNCHANGED <<alive, config, logout_on_exit, token, file>>

\* the URL of one page of get_all, lines 347-352
PageUrl(module_name, page, record_per_page) ==
    Join(<<"/">>, << <<"/", "m", "o", "d", "u", "l", "e">>, module_name >>)
    \o Join(<<"&">>,
            << <<"?", "p", "a", "g", "e", "[", "n", "u", "m", "b", "e", "r",
                 "]", "=">> \o IntToStr(page),
               <<"p", "a", "g", "e", "[", "s", "i", "z", "e", "]", "=">>
                 \o IntToStr(record_per_page) >>)

\* get_all(record_per_page), lines 335-339: the request for the page count
GetAll(module_name, record_per_page) ==
    /\ alive
    /\ pc = "idle"
    /\ op' = [Idle EXCEPT !.name = "get_all", !.phase = "count",
                 !.args = [NoArgs EXCEPT !.module_name = module_name],
                 !.record_per_page = record_per_page,
                 !.url = config.url
                         \o <<"/", "m", "o", "d", "u", "l", "e", "/">>
                         \o module_name
                         \o <<"?", "p", "a", "g", "e", "[", "n", "u", "m",
                              "b", "e", "r", "]", "=", "1", "&", "p", "a",
                              "g", "e", "[", "s", "i", "z", "e", "]", "=",
                              "1">>]
    /\ request(op'.url, "get", "")
    /\ outcome' = NoOutcome
    /\ UNCHANGED <<alive, config, logout_on_exit, token, file>>

\* lines 340-346: the page count is back; range(1, pages) is walked
GetAllCount ==
    /\ pc = "done"
    /\ op.name = "get_all"
    /\ op.phase = "count"
    /\ result.kind = "return"
    /\ LET meta == result.value.meta
           pages == Ceil(meta.total_pages, op.record_per_page) + 1
       IN
       IF ~meta.has_total
       THEN /\ outcome' = Ended("return", "", <<>>)
            /\ op' = Idle
            /\ pc' = "idle"
            /\ Reset
       ELSE IF 1 >= pages
       THEN /\ outcome' = [Ended("return", "", <<>>) EXCEPT
                               !.total = meta.total_pages,
                               !.has_total = TRUE]
            /\ op' = Idle
            /\ pc' = "idle"
            /\ Reset
       ELSE /\ op' = [op EXCEPT !.phase = "pages",
                                !.total = meta.total_pages,
                                !.pages = pages, !.page = 1,
                                !.page_requests = <<1>>,
                                !.url = config.url
                                   \o PageUrl(op.args.module_name, 1,
                                              op.record_per_page)]
            /\ request(op'.url, "get", "")
            /\ UNCHANGED outcome
    /\ UNCHANGED <<alive, config, logout_on_exit, token, file>>

\* lines 353-355: result.extend(request(...)['data']), then the next page
\* or return result
GetAllPage ==
    /\ pc = "done"
    /\ op.name = "get_all"
    /\ op.phase = "pages"
    /\ result.kind = "return"
    /\ LET extended == [op EXCEPT !.result = @ \o result.value.data,
                                  !.page_data = Append(@, result.value.data)]
       IN
       IF op.page + 1 < op.pages
       THEN /\ op' = [extended EXCEPT
                        !.page = op.page + 1,
                        !.page_requests = Append(@, op.page + 1),
                        !.url = config.url
                                \o PageUrl(op.args.module_name, op.page + 1,
                                           op.record_per_page)]
            /\ request(op'.url, "get", "")
            /\ UNCHANGED outcome
       ELSE /\ outcome' = [Ended("return", "", extended.result) EXCEPT
                               !.page_data = extended.page_data]
            /\ op' = Idle
            /\ pc' = "idle"
            /\ Reset
    /\ UNCHANGED <<alive, config, logout_on_exit, token, file>>

\* the interpreter exits: the handler registered at lines 146-147 runs
\* _logout (lines 155-156: the logout request) when logout_on_exit is set
AtExit ==
    /\ alive
    /\ pc = "idle"
    /\ IF logout_on_exit
       THEN /\ op' = [Idle EXCEPT !.name = "logout",
                                  !.url = config.url \o <<"/", "l", "o", "g",
                                                          "o", "u", "t">>]
            /\ request(op'.url, "post", "")
            /\ outcome' = NoOutcome
            /\ UNCHANGED <<alive, config, logout_on_exit, token>>
       ELSE /\ Dead
            /\ outcome' = [NoOutcome EXCEPT !.op = "atexit",
                               !.kind = "return"]
            /\ UNCHANGED <<op, pc, req, result, net, sent>>
    /\ UNCHANGED file

\* lines 157-158: the logout request returned: the token file is emptied
LogoutReturn ==
    /\ pc = "done"
    /\ op.name = "logout"
    /\ result.kind = "return"
    /\ file' = <<>>
    /\ outcome' = Ended("return", "", <<>>)
    /\ op' = Idle
    /\ pc' = "idle"
    /\ Dead
    /\ Reset

----------------------------------------------------------------------------
(* Specification *)

Next ==
    \/ \E client_id \in {<<>>, <<"i">>}, client_secret \in {<<>>, <<"s">>},
          url \in {<<>>} \cup BaseUrls, cfg \in {NoConfig} \cup Configs,
          loe \in BOOLEAN :
          Construct(client_id, client_secret, url, cfg, loe)
    \/ \E method \in Methods, parameters \in Parameters :
          Request(method, parameters)
    \/ \E module_name \in ModuleNames, fields \in FieldLists,
          sort \in SortFields, filters \in FilterSpecs :
          Get(module_name, fields, sort, filters)
    \/ \E module_name \in ModuleNames, record_per_page \in 1..MaxPageSize :
          GetAll(module_name, record_per_page)
    \/ AtExit
    \/ Try
    \/ ExpiredRefresh
    \/ ExpiredRetry
    \/ RevokedRefresh
    \/ RevokedRetry
    \/ Finish
    \/ RequestReturn
    \/ GetReturn
    \/ GetAllCount
    \/ GetAllPage
    \/ LogoutReturn
    \/ Unwind

Spec == Init /\ [][Next]_vars

\* request() runs to its end: each of its steps is taken once enabled
RequestStep ==
    Try \/ ExpiredRefresh \/ ExpiredRetry \/ RevokedRefresh \/ RevokedRetry
    \/ Finish

LiveSpec == Spec /\ WF_vars(RequestStep)

----------------------------------------------------------------------------
(* Properties of request() *)

\* the first attempt and the retry of the current call both returned 401
TwoConsecutive401 ==
    /\ Len(sent) >= 2
    /\ ~sent[1].expired /\ sent[1].status = 401
    /\ ~sent[2].expired /\ sent[2].status = 401

\* C1: a request() call whose first attempt and whose retry both return 401
\* makes exactly one refresh and exactly two attempts, and ends in the fatal
\* Unauthorized exit without a body.
C1_TwoUnauthorizedIsFatal ==
    TwoConsecutive401 =>
        /\ Len(sent) = 2
        /\ net.calls = 2
        /\ net.refreshes = 1
        /\ pc \in {"while", "done"}
        /\ pc = "done" =>
             /\ result.kind = "exit"
             /\ result.exc = "401 (Unauthorized) revoked"
             /\ result.value = None

C1_Witness == pc = "done" /\ TwoConsecutive401 /\ result.kind = "exit"

\* the first attempt raised TokenExpiredError and the retry returned a
\* response that is not a 401
ExpiredThenResponse ==
    /\ Len(sent) >= 2
    /\ sent[1].expired
    /\ ~sent[2].expired /\ sent[2].status # 401

\* C2 as stated: after one expiry signal and a non-401 retry, one refresh,
\* one retry, no further attempt, and the parsed body of the retry is returned.
C2_Original ==
    ExpiredThenResponse =>
        /\ Len(sent) = 2
        /\ net.refreshes = 1
        /\ pc \in {"while", "done"}
        /\ pc = "done" =>
             result.kind = "return" /\ result.value = req.data.body.doc

\* C2 (amended): after one expiry signal and a non-401 retry there is exactly
\* one refresh and one retry and no further attempt; the parsed body of the
\* retry is returned exactly when that body is JSON and the retry is not a
\* 400 carrying 'Database failure.', and otherwise the call raises.
C2_ExpiredOnceRetriesOnce ==
    ExpiredThenResponse =>
        /\ Len(sent) = 2
        /\ net.calls = 2
        /\ net.refreshes = 1
        /\ sent[2].site = "expired_retry"
        /\ pc \in {"while", "done"}
        /\ pc = "done" =>
             /\ result.kind \in {"return", "raise"}
             /\ result.kind = "return" <=>
                  /\ req.data.body.json
                  /\ ~(req.data.status = 400 /\ req.data.body.marker)
             /\ result.kind = "return" => result.value = req.data.body.doc
             /\ result.kind = "raise" =>
                  result.exc \in {"Database failure.", "JSONDecodeError"}

C2_Witness ==
    /\ pc = "done"
    /\ ExpiredThenResponse
    /\ result.kind = "return"
    /\ result.value = Doc(<<"r1">>, NoMeta)

\* the calls of the current request() made by the given retry site
RetriesAt(site) == {i \in 1..Len(sent) : sent[i].site = site}

InRequest ==
    pc \in {"try", "expired_refresh", "expired_retry", "while",
            "revoked_retry"}

\* C10: every request() call ends, with at most one retry after the expiry
\* signal and at most one after a 401, hence at most three attempts and two
\* refreshes, whatever the transport does.
C10_RequestTerminates ==
    /\ [](/\ Len(sent) <= 3
          /\ net.calls = Len(sent)
          /\ net.refreshes <= 2
          /\ Cardinality(RetriesAt("expired_retry")) <= 1
          /\ Cardinality(RetriesAt("revoked_retry")) <= 1
          /\ Cardinality(RetriesAt("first")) <= 1)
    /\ (InRequest ~> pc = "done")

\* an expiry signal, then an unbroken run of 401s
C10_Witness ==
    /\ pc = "done"
    /\ net.calls = 3
    /\ net.refreshes = 2
    /\ sent[1].expired
    /\ sent[2].status = 401
    /\ sent[3].status = 401

----------------------------------------------------------------------------
(* Properties of Module.get *)

EndsWith(s, t) == Len(t) <= Len(s) /\ SubSeq(s, Len(s) - Len(t) + 1, Len(s)) = t

\* C3 as stated: with zero filters the URL handed to request() keeps every
\* character built before the filter loop, has no dangling conjunction, and
\* carries the sort clause right after when a sort is given.
C3_ZeroFiltersKeepBase ==
    (op.name = "get" /\ op.args.filters = <<>>) =>
        LET base == config.url
                    \o FieldsConstructor(op.args.module_name, op.args.fields)
        IN
        /\ IsPrefix(base, op.url)
        /\ ~EndsWith(op.url, <<"a", "n", "d", "&">>)
        /\ op.url = SortClause(base, op.args.sort)

UnknownOperator(f) ==
    f.isdict /\ f.operator \notin {"=", "<>", ">", ">=", "<", "<="}

HasUnknownOperator(filters) ==
    \E i \in DOMAIN filters : UnknownOperator(filters[i])

\* C7: a get whose filters hold an operator outside the table, at any
\* position, fails with KeyError (the unknown-operator error) before
\* request() is entered: no URL is built or sent and no default is used.
C7_UnknownOperatorFails ==
    /\ op.name = "get" => ~HasUnknownOperator(op.args.filters)
    /\ (outcome.op = "get" /\ HasUnknownOperator(outcome.args.filters)) =>
         /\ outcome.kind = "raise"
         /\ outcome.exc = "KeyError"
         /\ pc = "idle"
         /\ op = Idle
         /\ net.calls = 0
         /\ net.refreshes = 0
         /\ sent = <<>>

\* the unknown operator sits behind a valid filter
C7_Witness ==
    /\ outcome.op = "get"
    /\ outcome.exc = "KeyError"
    /\ Len(outcome.args.filters) = 2
    /\ ~UnknownOperator(outcome.args.filters[1])
    /\ UnknownOperator(outcome.args.filters[2])

\* the operator name of the reference construction
ReferenceOperator(f) ==
    IF ~f.isdict THEN <<"e", "q">>
    ELSE CASE f.operator = "=" -> <<"E", "Q">>
           [] f.operator = "<>" -> <<"N", "E", "Q">>
           [] f.operator = ">" -> <<"G", "T">>
           [] f.operator = ">=" -> <<"G", "T", "E">>
           [] f.operator = "<" -> <<"L", "T">>
           [] f.operator = "<=" -> <<"L", "T", "E">>

ReferenceTerm(f) ==
    <<"[">> \o f.field \o <<"]", "[">> \o ReferenceOperator(f)
    \o <<"]", "=">> \o f.value

\* path, field selection, opener, the terms joined by the conjunction, sort
ReferenceUrl(args) ==
    <<"/", "m", "o", "d", "u", "l", "e", "/">> \o args.module_name
    \o (IF args.fields = <<>> THEN <<"?">>
        ELSE <<"?", "f", "i", "e", "l", "d", "s", "[">> \o args.module_name
             \o <<"]", "=">> \o Join(<<",">>, args.fields) \o <<"&">>)
    \o <<"f", "i", "l", "t", "e", "r">>
    \o Join(<<"a", "n", "d", "&">>,
            [i \in DOMAIN args.filters |-> ReferenceTerm(args.filters[i])])
    \o (IF args.sort = <<>> THEN <<>>
        ELSE <<"&", "s", "o", "r", "t", "=", "-">> \o args.sort)

\* C8: with at least one filter, the URL get hands to request() is the
\* reference construction: path, field selection, opener, one term per filter
\* in insertion order with the mapped operator name, joined by the
\* conjunction with the trailing one removed, then the descending sort.
C8_UrlIsReference ==
    (op.name = "get" /\ Len(op.args.filters) >= 1) =>
        op.url = config.url \o ReferenceUrl(op.args)

\* a literal filter, then a structured one, with fields and sort given
C8_Witness ==
    /\ op.name = "get"
    /\ pc = "try"
    /\ Len(op.args.filters) = 2
    /\ ~op.args.filters[1].isdict
    /\ op.args.filters[2].isdict
    /\ op.args.fields # <<>>
    /\ op.args.sort # <<>>

----------------------------------------------------------------------------
(* Properties of the token file *)

\* C4 as stated: what _login reads from the token file when a client is
\* constructed is what the file held, the token of the last refresh or empty.
C4_LoadReturnsSaved ==
    (outcome.op = "construct" /\ outcome.exc # "AttributeError") =>
        outcome.loaded = outcome.prior

\* C5 as stated: once _logout has ended, however its request ended, the
\* token file is empty.
C5_LogoutClearsStore == outcome.op = "logout" => file = <<>>

----------------------------------------------------------------------------
(* Properties of Module.get_all *)

\* the least k with k * p >= n
ReferenceCeil(n, p) ==
    CHOOSE k \in 0..n : k * p >= n /\ \A j \in 0..(k - 1) : j * p < n

RECURSIVE Flatten(_)
Flatten(parts) ==
    IF parts = <<>> THEN <<>> ELSE Head(parts) \o Flatten(Tail(parts))

\* C9: get_all returns [] without a page request when total-pages is absent
\* or zero; with N >= 1 pages and page size P it requests the pages
\* 1..ceil(N/P) in increasing order and returns their data concatenated.
C9_PageRequests ==
    /\ (outcome.op = "get_all" /\ outcome.kind = "return") =>
         LET k == IF outcome.has_total
                  THEN ReferenceCeil(outcome.total, outcome.record_per_page)
                  ELSE 0
         IN
         /\ outcome.page_requests = [i \in 1..k |-> i]
         /\ Len(outcome.page_data) = k
         /\ outcome.value = Flatten(outcome.page_data)
         /\ (~outcome.has_total \/ outcome.total = 0) => outcome.value = <<>>
    /\ (op.name = "get_all" /\ op.phase = "count") => op.page_requests = <<>>
    /\ (op.name = "get_all" /\ op.phase = "pages") =>
         /\ op.page_requests = [i \in 1..op.page |-> i]
         /\ op.page <= ReferenceCeil(op.total, op.record_per_page)
         /\ op.total >= 1
         /\ op.url = config.url
                     \o PageUrl(op.args.module_name, op.page,
                                op.record_per_page)

\* N = 2 pages with P = 2: the boundary where P divides N
C9_Witness ==
    /\ outcome.op = "get_all"
    /\ outcome.kind = "return"
    /\ outcome.has_total
    /\ outcome.total = 2
    /\ outcome.record_per_page = 2
    /\ outcome.page_requests = <<1>>
    /\ outcome.value = <<"r2">>

----------------------------------------------------------------------------
(* Properties of the end of request() *)

\* request() has ended on a final response that is not a 401
FinalResponse == pc = "done" /\ req.data.status \notin {0, 401}

MarkedBadRequest == req.data.status = 400 /\ req.data.body.marker

\* C11 as stated: the call raises the backend-query-unsupported error with
\* the raw body exactly on a 400 whose body holds 'Database failure.', and
\* returns the parsed body on every other final response that is not a 401.
C11_Original ==
    FinalResponse =>
        IF MarkedBadRequest
        THEN /\ result.kind = "raise"
             /\ result.exc = "Database failure."
             /\ result.raw = req.data.body
        ELSE /\ result.kind = "return"
             /\ result.value = req.data.body.doc

\* C11 (amended): the backend-query-unsupported error, with the raw body, is
\* raised exactly on a 400 whose body holds 'Database failure.'; every other
\* final response that is not a 401 returns the parsed body when the body is
\* JSON and raises the JSON decoding error when it is not, from the first
\* attempt or from a retry alike.
C11_Classification ==
    FinalResponse =>
        /\ result.kind # "exit"
        /\ (result.kind = "raise" /\ result.exc = "Database failure.")
             <=> MarkedBadRequest
        /\ MarkedBadRequest => result.raw = req.data.body
        /\ (~MarkedBadRequest /\ req.data.body.json) =>
             result.kind = "return" /\ result.value = req.data.body.doc
        /\ (~MarkedBadRequest /\ ~req.data.body.json) =>
             result.kind = "raise" /\ result.exc = "JSONDecodeError"

\* the marked 400 is the answer to a retry
C11_Witness ==
    /\ FinalResponse
    /\ Len(sent) = 2
    /\ MarkedBadRequest
    /\ result.exc = "Database failure."
    /\ result.raw = MarkerBody

----------------------------------------------------------------------------
(* Properties of construction and of the token endpoint *)

LastSlash(url) ==
    CHOOSE i \in 1..Len(url) :
        url[i] = "/" /\ \A j \in (i + 1)..Len(url) : url[j] # "/"

\* the base URL with its last path segment replaced by access_token
ReferenceTokenUrl(url) ==
    SubSeq(url, 1, LastSlash(url))
    \o <<"a", "c", "c", "e", "s", "s", "_", "t", "o", "k", "e", "n">>

\* C12 as stated: the token endpoint of every refresh is the base URL with
\* its last path segment replaced by access_token.
C12_TokenEndpoint ==
    (alive /\ net.tk_url # <<>>) =>
        net.tk_url = ReferenceTokenUrl(config.url)

Incomplete(cred) ==
    /\ ~cred.config
    /\ cred.client_id = <<>> \/ cred.client_secret = <<>> \/ cred.url = <<>>

\* C13 as stated: a construction without a config object and with a field
\* missing fails with the configuration error, before any network activity
\* and before the token file is read or written.
C13_ConfigError ==
    (outcome.op = "construct" /\ Incomplete(outcome.credential)) =>
        /\ outcome.kind = "raise"
        /\ outcome.exc = "PySuiteCRMConfigException"
        /\ ~alive
        /\ net = NoNet
        /\ file = outcome.prior

----------------------------------------------------------------------------
(* Properties of the refresh *)

\* C14: after every successful refresh the token file holds the text of the
\* session's token, and the file is written before the retry is issued: each
\* retry sees the file hold the token it is sent with.
C14_StoreHoldsToken ==
    /\ alive => file = TokenStr(token)
    /\ pc \in {"expired_retry", "revoked_retry"} =>
         /\ token.access_token # 0
         /\ token # sent[Len(sent)].token
         /\ file = TokenStr(token)
    /\ \A i \in 1..Len(sent) :
         sent[i].site # "first" =>
            /\ sent[i].store = TokenStr(sent[i].token)
            /\ sent[i].token # sent[i - 1].token
    /\ (outcome.op = "construct" /\ outcome.kind = "return") =>
         token.access_token # 0 /\ file = TokenStr(token)

\* the second refresh of a call has returned and its retry is due
C14_Witness ==
    /\ pc = "revoked_retry"
    /\ net.refreshes = 2
    /\ file = TokenStr(token)
    /\ file # sent[2].store

\* the exit messages of a refresh the identity provider rejects
RejectedClient ==
    {"401 (Unauthorized) - client id/secret", "401 (Unauthorized) - client id"}

\* C15: a refresh rejected for the client id/secret ends the operation with
\* exit(): nothing is sent or refreshed after it, no body is returned, and the
\* token file and the token are what they were at the attempt before it.
C15_RejectedRefreshIsFatal ==
    /\ (pc = "done" /\ result.exc \in RejectedClient) =>
         /\ result.kind = "exit"
         /\ result.value = None
         /\ Len(sent) >= 1
         /\ net.calls = Len(sent)
         /\ net.refreshes = net.calls
         /\ file = sent[Len(sent)].store
         /\ token = sent[Len(sent)].token
    /\ outcome.exc \in RejectedClient =>
         /\ outcome.kind = "exit"
         /\ outcome.value = <<>>
         /\ ~alive
         /\ pc = "idle"
         /\ sent = <<>>
    /\ (outcome.op = "construct" /\ outcome.exc \in RejectedClient) =>
         net.refreshes = 1 /\ net.calls = 0

\* the refresh after a 401 is rejected
C15_Witness ==
    /\ pc = "done"
    /\ result.exc = "401 (Unauthorized) - client id/secret"
    /\ Len(sent) = 1
    /\ sent[1].status = 401
    /\ file = sent[1].store

----------------------------------------------------------------------------
(* Properties of the two retries of request() *)

ExpiredTwice == Len(sent) >= 2 /\ sent[1].expired /\ sent[2].expired

RevokedThenExpired ==
    /\ Len(sent) >= 2
    /\ ~sent[1].expired /\ sent[1].status = 401
    /\ sent[2].expired

\* C17: when the retry after a TokenExpiredError raises TokenExpiredError
\* again the call fails for good: one refresh, two attempts, no third one and
\* no body; so it does when the retry after a 401 raises it, and an expiry
\* signal on any retry is the last thing the call does.
C17_SecondExpiryIsFatal ==
    /\ (ExpiredTwice \/ RevokedThenExpired) =>
         /\ Len(sent) = 2
         /\ net.calls = 2
         /\ net.refreshes = 1
         /\ pc = "done"
         /\ result.kind = "raise"
         /\ result.exc = "TokenExpiredError"
         /\ result.value = None
    /\ \A i \in 2..Len(sent) :
         sent[i].expired =>
            /\ i = Len(sent)
            /\ pc = "done"
            /\ result.kind = "raise"
            /\ result.exc = "TokenExpiredError"
            /\ result.value = None

C17_Witness ==
    /\ pc = "done"
    /\ ExpiredTwice
    /\ sent[2].site = "expired_retry"
    /\ result.exc = "TokenExpiredError"

ExpiredThenRevoked ==
    /\ Len(sent) >= 2
    /\ sent[1].expired
    /\ ~sent[2].expired /\ sent[2].status = 401

ExpiredRevokedThenResponse ==
    /\ Len(sent) >= 3
    /\ ExpiredThenRevoked
    /\ ~sent[3].expired /\ sent[3].status # 401

\* C18 as stated: expiry signal, then 401, then a response that is not a 401:
\* two refreshes, three attempts, and the parsed body of the third response
\* is returned.
C18_Original ==
    ExpiredRevokedThenResponse =>
        /\ Len(sent) = 3
        /\ net.refreshes = 2
        /\ pc \in {"while", "done"}
        /\ pc = "done" =>
             result.kind = "return" /\ result.value = req.data.body.doc

\* C18 (amended): the expiry retry does not use up the 401 retry: a 401 on
\* the expiry retry is always followed by a second refresh, and when the
\* third attempt returns a response that is not a 401 the call has made two
\* refreshes and three attempts and returns the parsed body of the third
\* response when that body is JSON and not a 400 with 'Database failure.',
\* and raises otherwise.
C18_RetriesAreIndependent ==
    /\ (ExpiredThenRevoked /\ Len(sent) = 2) =>
         /\ pc \in {"while", "revoked_retry", "done"}
         /\ pc = "while" => WhileCond(req.data.status, req.attempts)
         /\ pc = "done" =>
              /\ net.refreshes = 2
              /\ result.kind \in {"exit", "raise"}
              /\ result.exc \in RejectedClient \cup {"ConnectionError"}
    /\ ExpiredRevokedThenResponse =>
         /\ Len(sent) = 3
         /\ net.calls = 3
         /\ net.refreshes = 2
         /\ sent[2].site = "expired_retry"
         /\ sent[3].site = "revoked_retry"
         /\ pc \in {"while", "done"}
         /\ pc = "done" =>
              /\ result.kind \in {"return", "raise"}
              /\ result.kind = "return" <=>
                   /\ req.data.body.json
                   /\ ~(req.data.status = 400 /\ req.data.body.marker)
              /\ result.kind = "return" => result.value = req.data.body.doc
              /\ result.kind = "raise" =>
                   result.exc \in {"Database failure.", "JSONDecodeError"}

C18_Witness ==
    /\ pc = "done"
    /\ ExpiredRevokedThenResponse
    /\ result.kind = "return"
    /\ result.value = Doc(<<"r1">>, NoMeta)
    /\ net.refreshes = 2

----------------------------------------------------------------------------
(* Frame properties *)

\* the calls made so far saw no TokenExpiredError and no 401
NoTrigger(log) ==
    \A i \in 1..Len(log) : ~log[i].expired /\ log[i].status # 401

\* C19 as stated: a request() call that sees neither signal makes no refresh
\* and leaves the token and the token file alone, and the token file only
\* ever changes by a refresh that succeeded or by the write of _logout.
C19_OnlyRefreshAndLogoutWrite ==
    [][/\ (pc \in {"try", "while"} /\ NoTrigger(sent')) =>
            /\ net'.refreshes = 0
            /\ token' = token
            /\ file' = file
       /\ file' # file =>
            \/ token' # token /\ file' = TokenStr(token')
            \/ op.name = "logout" /\ pc = "done" /\ file' = <<>>
      ]_vars

\* C20: a request() whose method name getattr does not find on the session
\* returns None, and no name that is not a session method leads to a call of
\* the_method, to a refresh, to a body or to a change of the token or of
\* the token file.
C20_UnknownMethod ==
    [][/\ (req'.method \notin SessionMethods /\ pc' # "idle") =>
            /\ pc' \in {"try", "done"}
            /\ sent' = <<>>
            /\ net' = NoNet
            /\ token' = token
            /\ file' = file
            /\ pc' = "done" =>
                 /\ result'.value = None
                 /\ req'.method \notin SessionAttributes =>
                      pc = "idle" /\ result'.kind = "return"
       /\ (req.method \notin SessionMethods /\ pc = "done") =>
            /\ token' = token
            /\ file' = file
            /\ outcome'.op = "request"
            /\ outcome'.value \in {None, <<>>}
            /\ req.method \notin SessionAttributes =>
                 outcome'.kind = "return" /\ outcome'.value = None
      ]_vars

C20_Witness ==
    /\ pc = "done"
    /\ req.method = "fetch"
    /\ result.kind = "return"
    /\ result.value = None
    /\ sent = <<>>
    /\ net.refreshes = 0

====

